---- MODULE Spec2Model ----
(***************************************************************************)
(* Reminder scheduling and delivery engine of the subscription bot.        *)
(*                                                                         *)
(* The repository holds two SchedulerService implementations:              *)
(*   "sync"  : src/services/scheduler_service.py  (imported by main.py;    *)
(*             the tick calls _process_daily_reminders_sync inline)        *)
(*   "gated" : src/services/database_service.py   (last_morning_run gate,  *)
(*             coroutine pass on a dedicated loop, 3 attempts per job)     *)
(* The variable engine says which one drives the scheduler.                *)
(***************************************************************************)
EXTENDS Integers, Sequences, FiniteSets, TLC

(* ------------------------------ bounds -------------------------------- *)
MaxDay == 1          \* business dates 0..MaxDay
MaxLog == 3          \* ledger rows (committed + pending) the model lets exist
MaxLen == 3          \* tokens in a template body given to the renderer
MaxNotes == 3        \* approval notifications the model counts for one payment
MaxEvents == 1       \* irregular events in one behaviour: a process restart, a manual
                     \* "run now", a 60 s wait that times out, the clock moving on
                     \* while a tick or a pass is in progress, a database error,
                     \* an approved payment (seen by the poller or reported to
                     \* the webhook), the daily reset

(* --------------------------- fixed universe --------------------------- *)
Users   == {1, 2}
Clients == {1, 2, 3, 4}
Workers == {1, 2}

\* Client.user_id
owner == [c \in Clients |-> IF c = 4 THEN 2 ELSE 1]

Engines == {"sync", "gated"}

\* template_type values, in the order the passes walk them
BucketOrder == <<"reminder_2_days", "reminder_1_day", "reminder_due_date", "reminder_overdue">>
Buckets == {BucketOrder[i] : i \in 1..Len(BucketOrder)}

\* Time of day in America/Sao_Paulo, cut at the instants the code compares with:
\*   0 = [00:00, 09:00)
\*   1 = [09:00, 21:00)      09:00 is the default morning_reminder_time
\*   2 = [21:00, 24:00)      the UTC date is already the next day
Slots == {0, 1, 2}
LastSlot == CHOOSE s \in Slots : \A t \in Slots : t <= s
\* morning_reminder_time='09:00', as the slot that starts at it
DefaultMorning == CHOOSE s \in Slots : s # 0 /\ s # LastSlot
\* a morning_reminder_time that does not parse as "%H:%M"
InvalidTime == LastSlot + 1

Days == 0..MaxDay

VARIABLES
    engine,          \* which SchedulerService is installed
    hostUTC,         \* TRUE: the host clock is UTC; FALSE: it is America/Sao_Paulo
    day, slot,       \* the current instant (business date, time-of-day slot)
    userActive,      \* User.is_active
    userTrial,       \* User.is_trial and the date User.created_at + 7 days
    autoSend,        \* UserScheduleSettings.auto_send_enabled
    morningTime,     \* UserScheduleSettings.morning_reminder_time (as a slot start)
    lastMorningRun,  \* UserScheduleSettings.last_morning_run (-1 = NULL)
    clientDue,       \* Client.due_date
    clientStatus,    \* Client.status
    clientAuto,      \* Client.auto_reminders_enabled
    lastReminderSent,\* Client.last_reminder_sent (-2 = NULL)
    tmplActive,      \* an active MessageTemplate exists for <<user, template_type>>
    tmplDup,         \* the <<user, template_type>> pairs with more than one active template
    MessageLog,      \* committed ledger rows, in commit order
    pass,            \* per worker: the classification pass it is running
    tick,            \* the scheduler thread inside _check_reminder_times
    delivered,       \* history: successful transport calls per <<client, bucket, day>>
    events,          \* history: the irregular events so far, by kind
    aborted,         \* history: <<account, date>> of the tick passes a database error ended
    render,          \* a call of the renderer: template content, client fields, result
    trialReminded,   \* history: <<account, date>> of the trial-expiry reminders sent
    subscription,    \* Subscription rows, with what the payment provider says of each
    wa,              \* a call of WhatsAppService.send_message: the bridge, the result
    sched,           \* SchedulerService.is_running, the registered jobs, the threads
    lastJob          \* history: the send job the last step finished, if it finished one

vars == <<engine, hostUTC, day, slot, userActive, userTrial, autoSend, morningTime,
          lastMorningRun, clientDue, clientStatus, clientAuto, lastReminderSent,
          tmplActive, tmplDup, MessageLog, pass, tick, delivered, events, aborted, render,
          trialReminded, subscription, wa, sched, lastJob>>

dbUser    == <<userActive, userTrial, autoSend, morningTime, lastMorningRun>>
dbClient  == <<clientDue, clientStatus, clientAuto, lastReminderSent>>
services  == <<subscription, wa, sched>>
build     == <<engine, hostUTC, events, aborted, tmplDup, render, trialReminded, services>>
install   == <<engine, hostUTC, events, aborted, tmplDup, render, services>>
clock     == <<day, slot>>

(* ------------------------------ the clock ----------------------------- *)
\* datetime.now(pytz.timezone('America/Sao_Paulo')).date()
BusinessDate == day

\* date.today() / datetime.now().date(): the host-local date of an instant
HostDateAt(d, s) == IF hostUTC /\ s = LastSlot THEN d + 1 ELSE d
HostDate == HostDateAt(day, slot)

(* ----------------------------- classifier ----------------------------- *)
\* the four Client queries of _process_daily_reminders_sync
ClassifySync(due, today) ==
    IF due = today + 2 THEN "reminder_2_days"
    ELSE IF due = today + 1 THEN "reminder_1_day"
    ELSE IF due = today THEN "reminder_due_date"
    ELSE IF due < today THEN "reminder_overdue"
    ELSE "none"

\* the or_() query and the groups dict of _process_daily_reminders_for_user
ClassifyGated(due, today) ==
    IF due = today + 2 THEN "reminder_2_days"
    ELSE IF due = today + 1 THEN "reminder_1_day"
    ELSE IF due = today THEN "reminder_due_date"
    ELSE IF due = today - 1 THEN "reminder_overdue"
    ELSE "none"

\* the filters without the status and the auto-reminder tests
EligibleAnyone(c, u) ==
    owner[c] = u

\* Client.status == 'active' and Client.auto_reminders_enabled
Eligible(c, u) ==
    owner[c] = u /\ clientStatus[c] = "active" /\ clientAuto[c]

(* ------------------------------ records ------------------------------- *)
\* ids start at 1; 0 stands for "no user" / "no client" / "no worker"

\* a MessageLog row
\* sent_at is kept as the business date of the instant (the date of the UTC
\* timestamp utcnow() stores, shifted to America/Sao_Paulo) and its host-local
\* date (the date of what datetime.now() stores)
LogRow(u, c, b, st) ==
    [user |-> u, client |-> c, ttype |-> b, day |-> day, hday |-> HostDate, status |-> st]

\* a worker that runs no pass
IdlePass ==
    [pc |-> "idle", user |-> 0, origin |-> "none",
     groups |-> [b \in Buckets |-> {}], bi |-> 1, todo |-> {},
     pending |-> <<>>, warns |-> [b \in Buckets |-> 0]]

IdleTick == [pc |-> "idle", rows |-> {}, cfg |-> <<>>, date |-> 0, slot |-> 0, user |-> 0, w |-> 0]

\* a finished send job: transport calls made, attempts made, calls that
\* reported success, waits made ("await asyncio.sleep(attempt)"), the status
\* written, the outcome of the first call; and the account the step sent a
\* trial-expiry reminder to, the account it sent the payment notification to
NoJob == [calls |-> 0, attempts |-> 0, oks |-> 0, sleeps |-> 0, status |-> "none",
          first |-> "none", trial |-> 0, paynote |-> 0]

\* rows of every open session that are added but not committed
PendingRows == Len(pass[1].pending) + Len(pass[2].pending)

(* --------------------------- template lookup -------------------------- *)
\* session.query(MessageTemplate).filter_by(user_id, template_type, is_active=True).first()
\* (.first() takes one row however many the filter matches)
HasTemplate(u, b) == tmplActive[<<u, b>>]

RECURSIVE WalkBuckets(_, _)
\* the loop with "return" in place of "continue" at a bucket without template
WalkBucketsAbort(p, donepc) ==
    IF p.bi > Len(BucketOrder) THEN [p EXCEPT !.pc = donepc, !.todo = {}]
    ELSE LET b == BucketOrder[p.bi] IN
         IF p.groups[b] = {} THEN WalkBuckets([p EXCEPT !.bi = @ + 1], donepc)
         ELSE IF ~HasTemplate(p.user, b)
              THEN [p EXCEPT !.pc = donepc, !.todo = {}, !.warns[b] = @ + 1]
              ELSE [p EXCEPT !.pc = "client", !.todo = p.groups[b]]

\* the loop over the reminder groups up to the next bucket that has clients
\* and a template: an empty bucket is passed silently, a bucket without
\* template is passed with one warning.  donepc is where the pass goes when
\* no bucket is left.
WalkBuckets(p, donepc) ==
    IF p.bi > Len(BucketOrder) THEN [p EXCEPT !.pc = donepc, !.todo = {}]
    ELSE LET b == BucketOrder[p.bi] IN
         IF p.groups[b] = {} THEN WalkBuckets([p EXCEPT !.bi = @ + 1], donepc)
         ELSE IF ~HasTemplate(p.user, b)
              THEN WalkBuckets([p EXCEPT !.bi = @ + 1, !.warns[b] = @ + 1], donepc)
              ELSE [p EXCEPT !.pc = "client", !.todo = p.groups[b]]

\* the list a query returns is walked in id order
First(S) == CHOOSE c \in S : \A d \in S : c <= d

(* ------------------------------ rendering ----------------------------- *)
\* A text is a sequence of tokens: a word, a line break ("NL"), or the text
\* of a placeholder.  "{cupom}" is a placeholder the renderer does not know.
Tokens == {"Ola", "NL", "{nome}", "{plano}", "{informacoes_extras}", "{cupom}"}

\* template bodies of up to MaxLen tokens
Contents == UNION {[1..n -> Tokens] : n \in 0..MaxLen}

\* Client.name, Client.plan_name, Client.other_info as stored (free text the
\* account's owner typed; other_info may be empty)
ClientFields ==
    [name : {<<"Ana">>, <<"{plano}">>},
     plan : {<<"Gold">>, <<"{nome}">>},
     extras : {<<>>, <<"{nome}">>, <<"NL">>}]

\* the variables dict, in its insertion order (the formatted price and due
\* date and the server label are left out: their values hold no placeholder)
Variables(f) ==
    << <<"{nome}", f.name>>, <<"{plano}", f.plan>>, <<"{informacoes_extras}", f.extras>> >>

RECURSIVE ReplaceAll(_, _, _)
\* result.replace(var, str(value))
ReplaceAll(t, var, value) ==
    IF t = <<>> THEN <<>>
    ELSE (IF Head(t) = var THEN value ELSE <<Head(t)>>) \o ReplaceAll(Tail(t), var, value)

RECURSIVE ReplaceEach(_, _, _)
\* "for var, value in variables.items(): result = result.replace(var, str(value))"
\* from the i-th entry on
ReplaceEach(t, vs, i) ==
    IF i > Len(vs) THEN t
    ELSE ReplaceEach(ReplaceAll(t, vs[i][1], vs[i][2]), vs, i + 1)

RECURSIVE Collapse(_)
\* while "\n\n\n" in result: result = result.replace("\n\n\n", "\n\n")
\* (every run of three or more line breaks ends as two)
Collapse(t) ==
    IF Len(t) < 3 THEN t
    ELSE IF t[1] = "NL" /\ t[2] = "NL" /\ t[3] = "NL" THEN Collapse(Tail(t))
    ELSE <<Head(t)>> \o Collapse(Tail(t))

RECURSIVE Strip(_)
\* result.strip()
Strip(t) ==
    IF t = <<>> THEN t
    ELSE IF Head(t) = "NL" THEN Strip(Tail(t))
    ELSE IF t[Len(t)] = "NL" THEN Strip(SubSeq(t, 1, Len(t) - 1))
    ELSE t

\* the message body: _replace_template_variables of database_service.py, and
\* the inline loop of _process_daily_reminders_sync (no collapse, no strip)
ReplaceTemplateVariables(e, t, f) ==
    IF e = "gated" THEN Strip(Collapse(ReplaceEach(t, Variables(f), 1)))
    ELSE ReplaceEach(t, Variables(f), 1)

\* no call of the renderer is looked at
NoRender == [content |-> <<>>, fields |-> [name |-> <<>>, plan |-> <<>>, extras |-> <<>>],
             body |-> <<>>, done |-> FALSE]

(* ------------------- sync engine: the classification pass ------------- *)
\* reminder_groups of _process_daily_reminders_sync (today = date.today())
SyncGroups(u) ==
    [b \in Buckets |-> {c \in Clients : Eligible(c, u) /\ ClassifySync(clientDue[c], HostDate) = b}]

\* _process_daily_reminders_sync up to the first send: the queries, the
\* "total_clients == 0" return, the walk to the first bucket to send
SyncStart(u, origin) ==
    LET g == SyncGroups(u) IN
    IF \A b \in Buckets : g[b] = {} THEN IdlePass
    ELSE WalkBuckets([IdlePass EXCEPT !.user = u, !.origin = origin, !.groups = g],
                    "commit")

\* the existing_log query: a row of this user, client and type with status
\* 'sent' whose func.date(sent_at) is the host date now; sent_at was written
\* as datetime.now(), host-local.  The session autoflushes its own added rows.
SyncAlreadySent(w, c, b) ==
    \E r \in {MessageLog[i] : i \in 1..Len(MessageLog)}
             \cup {pass[w].pending[i] : i \in 1..Len(pass[w].pending)} :
        /\ r.user = pass[w].user /\ r.client = c /\ r.ttype = b
        /\ r.hday = HostDate
        /\ r.status = "sent"

(* ------------------------------ transport ----------------------------- *)
\* what WhatsAppService.send_message returns: {"success": True, ...} or
\* {"success": False, "error": ...}; it catches every exception itself
Outcomes == {"ok", "fail"}

\* the bridge delivered one more message of bucket b to client c today
\* (the history counts 0, 1, "2 or more")
Deliver(d, c, b, o) ==
    IF o = "ok" THEN [d EXCEPT ![<<c, b, day>>] = IF @ = 0 THEN 1 ELSE 2] ELSE d

\* the pass of worker w after the job of its current bucket for client c ended
AfterJob(p, c, row) ==
    LET q == [p EXCEPT !.todo = @ \ {c}, !.pending = Append(@, row)]
    IN IF q.todo # {} THEN q
       ELSE IF engine = "sync" THEN WalkBuckets([q EXCEPT !.bi = @ + 1], "commit")
       ELSE [q EXCEPT !.pc = "commit"]

\* the pass of worker w after client c was skipped by the dedup check
AfterSkip(p, c) ==
    LET q == [p EXCEPT !.todo = @ \ {c}]
    IN IF q.todo # {} THEN q
       ELSE IF engine = "sync" THEN WalkBuckets([q EXCEPT !.bi = @ + 1], "commit")
       ELSE [q EXCEPT !.pc = "commit"]

\* the scheduler thread after the pass it ran inline returned
TickAfterPass(t) ==
    IF t.rows = {} THEN IdleTick ELSE [t EXCEPT !.pc = "users", !.user = 0, !.w = 0]

(* --------------------- sync engine: one client ------------------------ *)
\* one iteration of "for client in clients" of _process_daily_reminders_sync:
\* dedup check, ws.send_message, session.add(MessageLog(...))
SyncClient(w) ==
    /\ engine = "sync"
    /\ pass[w].pc = "client"
    /\ LET p == pass[w]
           c == First(p.todo)
           b == BucketOrder[p.bi]
       IN IF SyncAlreadySent(w, c, b)
          THEN /\ pass' = [pass EXCEPT ![w] = AfterSkip(p, c)]
               /\ UNCHANGED delivered
               /\ lastJob' = NoJob
          ELSE /\ Len(MessageLog) + PendingRows < MaxLog
               /\ \E o \in Outcomes :
                    LET st == IF o = "ok" THEN "sent" ELSE "failed" IN
                    /\ delivered' = Deliver(delivered, c, b, o)
                    /\ pass' = [pass EXCEPT ![w] = AfterJob(p, c, LogRow(p.user, c, b, st))]
                    /\ lastJob' = [calls |-> 1, attempts |-> 1,
                                   oks |-> IF o = "ok" THEN 1 ELSE 0, sleeps |-> 0,
                                   status |-> st, first |-> o, trial |-> 0,
                                   paynote |-> 0]
    /\ UNCHANGED <<build, clock, dbUser, dbClient, tmplActive, MessageLog, tick>>

\* "client.last_reminder_sent = datetime.now().date()" of every job of the
\* pass that was sent, written with the pass's commit
Stamped(rows) ==
    [c \in Clients |->
       LET mine == {i \in 1..Len(rows) : rows[i].client = c /\ rows[i].status = "sent"} IN
       IF mine = {} THEN lastReminderSent[c]
       ELSE rows[CHOOSE i \in mine : \A j \in mine : j <= i].hday]

\* the commit replacing the ledger by the rows of this session
SyncCommitRewrites(w) ==
    /\ engine = "sync"
    /\ pass[w].pc = "commit"
    /\ MessageLog' = pass[w].pending
    /\ pass' = [pass EXCEPT ![w] = IdlePass]
    /\ tick' = IF pass[w].origin = "tick" THEN TickAfterPass(tick) ELSE tick
    /\ UNCHANGED <<build, clock, dbUser, dbClient, tmplActive, delivered>>
    /\ lastJob' = NoJob

\* session.commit() at the end of _process_daily_reminders_sync, and the return
SyncCommit(w) ==
    /\ engine = "sync"
    /\ pass[w].pc = "commit"
    /\ MessageLog' = MessageLog \o pass[w].pending
    /\ lastReminderSent' = Stamped(pass[w].pending)
    /\ pass' = [pass EXCEPT ![w] = IdlePass]
    /\ tick' = IF pass[w].origin = "tick" THEN TickAfterPass(tick) ELSE tick
    /\ UNCHANGED <<build, clock, dbUser, clientDue, clientStatus, clientAuto, tmplActive,
                   delivered>>
    /\ lastJob' = NoJob

(* -------------------------- trial-expiry reminder --------------------- *)
\* _check_trial_expiration reads is_trial and is_active of the user object the
\* tick's query loaded; created_at never changes.
\* "days_until <= 0 and user.is_active": the trial has ended
TrialExpired(u) ==
    tick.cfg[u].is_trial /\ userTrial[u].ends <= tick.date /\ tick.cfg[u].is_active

\* "elif days_until == 1": the account is on trial and one day of the trial
\* is left on the tick's date
TrialReminderDue(u) ==
    tick.cfg[u].is_trial /\ userTrial[u].ends - tick.date = 1

\* what a tick step that runs the trial check for account u leaves behind:
\* _send_trial_reminder is submitted and waited for whenever it is due; the
\* expiry branch of database_service.py submits _send_payment_notification,
\* the one of scheduler_service.py raises NameError ("User") before it
TrialJob(u) ==
    [NoJob EXCEPT !.trial = IF TrialReminderDue(u) THEN u ELSE 0,
                  !.paynote = IF engine = "gated" /\ TrialExpired(u) THEN u ELSE 0]
TrialNoted(u) == IF TrialReminderDue(u) THEN trialReminded \cup {<<u, tick.date>>}
                 ELSE trialReminded

(* ----------------------- sync engine: the tick ------------------------ *)
\* the query without its is_active filter
AllUsers == Users

\* the rows of the User x UserScheduleSettings query (User.is_active == True):
\* the objects the session loaded, with the attribute values of that moment
ActiveUsers == {u \in Users : userActive[u]}
Settings == [u \in Users |-> [auto |-> autoSend[u], morning |-> morningTime[u],
                              is_trial |-> userTrial[u].is_trial,
                              is_active |-> userActive[u]]]

\* _check_reminder_times, to the end of the query: the clock is read once
TickBegin ==
    /\ tick.pc = "idle"
    /\ ActiveUsers # {}
    /\ tick' = [IdleTick EXCEPT !.pc = "users", !.rows = ActiveUsers, !.cfg = Settings,
                                !.date = BusinessDate, !.slot = slot]
    /\ UNCHANGED <<build, clock, dbUser, dbClient, tmplActive, MessageLog, pass,
                   delivered>>
    /\ lastJob' = NoJob

\* "if current_time >= daily_time", after the auto_send_enabled test and the
\* strptime of the time ("except ValueError: continue"): no last-run test
\* ("NO PROTECTION DURING TEST PHASE")
SyncDue(u) ==
    /\ tick.cfg[u].auto
    /\ tick.cfg[u].morning # InvalidTime
    /\ tick.slot >= tick.cfg[u].morning

\* one iteration of "for user, settings in users_settings" (scheduler_service.py):
\* the trial check first (its deactivation branch raises NameError, which it
\* logs: only its reminder branch has an effect), then the pass runs inline
\* whenever the time has passed
SyncTickUser ==
    /\ engine = "sync"
    /\ tick.pc = "users"
    /\ LET u == First(tick.rows)
           t == [tick EXCEPT !.rows = @ \ {u}]
       IN IF SyncDue(u)
          THEN LET p == SyncStart(u, "tick") IN
               /\ pass[1].pc = "idle"
               /\ pass' = [pass EXCEPT ![1] = p]
               /\ tick' = IF p.pc = "idle" THEN TickAfterPass(t)
                          ELSE [t EXCEPT !.pc = "pass", !.user = u, !.w = 1]
          ELSE /\ tick' = TickAfterPass(t)
               /\ UNCHANGED pass
    /\ trialReminded' = TrialNoted(First(tick.rows))
    /\ lastJob' = TrialJob(First(tick.rows))
    /\ UNCHANGED <<install, clock, dbUser, dbClient, tmplActive, MessageLog,
                   delivered>>

(* --------------------------- manual trigger --------------------------- *)
\* the manual run recording the account as run today
ForceStampsLastRun(u) ==
    /\ Len(events) < MaxEvents
    /\ events' = Append(events, "manual")
    /\ userActive[u]
    /\ pass[2].pc = "idle"
    /\ morningTime' = [morningTime EXCEPT ![u] = DefaultMorning]
    /\ autoSend' = [autoSend EXCEPT ![u] = TRUE]
    /\ lastMorningRun' = [lastMorningRun EXCEPT ![u] = BusinessDate]
    /\ pass' = IF engine = "sync" THEN [pass EXCEPT ![2] = SyncStart(u, "manual")] ELSE pass
    /\ UNCHANGED <<engine, hostUTC, tmplDup, render, services, trialReminded, aborted, clock,
                   userActive, userTrial, dbClient, tmplActive, MessageLog, tick,
                   delivered>>
    /\ lastJob' = NoJob

\* force_process_reminders_today: resets the schedule settings, commits, and
\* calls scheduler_service._process_daily_reminders_sync on the bot's thread.
\* The gated SchedulerService has no such method: the call raises and only
\* the settings change.
ForceProcessRemindersToday(u) ==
    /\ Len(events) < MaxEvents
    /\ events' = Append(events, "manual")
    /\ userActive[u]
    /\ pass[2].pc = "idle"
    /\ morningTime' = [morningTime EXCEPT ![u] = DefaultMorning]
    /\ autoSend' = [autoSend EXCEPT ![u] = TRUE]
    /\ pass' = IF engine = "sync" THEN [pass EXCEPT ![2] = SyncStart(u, "manual")] ELSE pass
    /\ UNCHANGED <<engine, hostUTC, tmplDup, render, services, trialReminded, aborted, clock,
                   userActive, userTrial, lastMorningRun, dbClient, tmplActive, MessageLog,
                   tick, delivered>>
    /\ lastJob' = NoJob

(* ------------------ gated engine: the classification pass ------------- *)
\* all_clients and groups of _process_daily_reminders_for_user
GatedGroups(u, today) ==
    [b \in Buckets |-> {c \in Clients : Eligible(c, u) /\ ClassifyGated(clientDue[c], today) = b}]

\* _process_daily_reminders_for_user starts on the loop thread: the user is
\* re-read with is_active=True, the clients are classified, and
\* _send_reminders_by_type is entered for the first bucket that has clients
GatedBegin(w) ==
    /\ engine = "gated"
    /\ pass[w].pc = "start"
    /\ LET p == pass[w]
           g == GatedGroups(p.user, BusinessDate)
       IN pass' = [pass EXCEPT ![w] =
                     IF ~userActive[p.user] THEN IdlePass
                     ELSE WalkBuckets([p EXCEPT !.groups = g], "done")]
    /\ UNCHANGED <<build, clock, dbUser, dbClient, tmplActive, MessageLog, tick,
                   delivered>>
    /\ lastJob' = NoJob

\* the "exists" query of _send_reminders_by_type: a 'sent' row of this user,
\* client and template with sent_at >= start_utc.  sent_at is utcnow();
\* start_utc is the start of today_local in America/Sao_Paulo (pytz resolves
\* tzinfo=SAO_PAULO_TZ with the zone's LMT offset, 6 min 28 s late, a grain
\* the slots do not split); the window has no upper end.
GatedAlreadySent(w, c, b) ==
    \E r \in {MessageLog[i] : i \in 1..Len(MessageLog)}
             \cup {pass[w].pending[i] : i \in 1..Len(pass[w].pending)} :
        /\ r.user = pass[w].user /\ r.client = c /\ r.ttype = b
        /\ r.day >= BusinessDate
        /\ r.status = "sent"

\* "attempts = 3"
attempts == 3

\* the bridge delivered k more messages of bucket b to client c today
DeliverN(d, c, b, k) ==
    IF k = 0 THEN d
    ELSE IF k = 1 THEN Deliver(d, c, b, "ok")
    ELSE Deliver(Deliver(d, c, b, "ok"), c, b, "ok")

\* number of "ok" among the first n entries of a sequence of outcomes
OkCount(os, n) == Cardinality({i \in 1..n : os[i] = "ok"})

\* one iteration of "for client in clients" of _send_reminders_by_type: the
\* dedup check, then "for attempt in range(1, attempts + 1)" to its end, then
\* session.add(log).  In each attempt "await whatsapp_service.send_message(..)"
\* calls the synchronous send_message (outcome firsts[i]), raises TypeError on
\* awaiting the returned dict, and the handler calls send_message again
\* (outcome seconds[i]) and keeps that result; the loop breaks at the first
\* attempt whose kept result is a success, and every other attempt ends with
\* "await asyncio.sleep(attempt)".
GatedClient(w) ==
    /\ engine = "gated"
    /\ pass[w].pc = "client"
    /\ LET p == pass[w]
           c == First(p.todo)
           b == BucketOrder[p.bi]
       IN IF GatedAlreadySent(w, c, b)
          THEN /\ pass' = [pass EXCEPT ![w] = AfterSkip(p, c)]
               /\ UNCHANGED delivered
               /\ lastJob' = NoJob
          ELSE /\ Len(MessageLog) + PendingRows < MaxLog
               /\ \E firsts \in [1..attempts -> Outcomes], n \in 1..attempts, last \in Outcomes :
                    LET seconds == [i \in 1..attempts |-> IF i = n THEN last ELSE "fail"]
                        st == IF last = "ok" THEN "sent" ELSE "failed"
                    IN
                    /\ last = "fail" => n = attempts
                    /\ delivered' = DeliverN(delivered, c, b,
                                           OkCount(firsts, n) + OkCount(seconds, n))
                    /\ pass' = [pass EXCEPT ![w] = AfterJob(p, c, LogRow(p.user, c, b, st))]
                    /\ lastJob' = [calls |-> 2 * n, attempts |-> n,
                                   oks |-> OkCount(firsts, n) + OkCount(seconds, n),
                                   sleeps |-> IF last = "ok" THEN n - 1 ELSE n,
                                   status |-> st, first |-> firsts[1], trial |-> 0,
                                   paynote |-> 0]
    /\ UNCHANGED <<build, clock, dbUser, dbClient, tmplActive, MessageLog, tick>>

\* session.commit() at the end of _send_reminders_by_type, then the groups
\* loop goes on to the next bucket
GatedCommit(w) ==
    /\ engine = "gated"
    /\ pass[w].pc = "commit"
    /\ MessageLog' = MessageLog \o pass[w].pending
    /\ pass' = [pass EXCEPT ![w] =
                  WalkBuckets([pass[w] EXCEPT !.pending = <<>>, !.bi = @ + 1], "done")]
    /\ UNCHANGED <<build, clock, dbUser, dbClient, tmplActive, tick, delivered>>
    /\ lastJob' = NoJob

\* the groups loop is over: the session closes, the coroutine returns and
\* its future gets its result
GatedEnd(w) ==
    /\ engine = "gated"
    /\ pass[w].pc = "done"
    /\ pass' = [pass EXCEPT ![w] = IdlePass]
    /\ UNCHANGED <<build, clock, dbUser, dbClient, tmplActive, MessageLog, tick, delivered>>
    /\ lastJob' = NoJob

(* ----------------------- gated engine: the tick ----------------------- *)
\* morning_dt: the parsed morning_reminder_time, 09:00 when the parse fails
MorningDt(u) ==
    IF tick.cfg[u].morning = InvalidTime THEN DefaultMorning ELSE tick.cfg[u].morning

\* the gate with an exact match of the minute instead of ">="
WillRunMorningExact(u) ==
    /\ tick.cfg[u].auto
    /\ tick.slot = MorningDt(u)
    /\ lastMorningRun[u] # tick.date

\* will_run_morning, after the auto_send_enabled test:
\* brazil_now >= morning_dt and settings.last_morning_run != current_date
WillRunMorning(u) ==
    /\ tick.cfg[u].auto
    /\ tick.slot >= MorningDt(u)
    /\ lastMorningRun[u] # tick.date

\* _check_trial_expiration of database_service.py, the last statement of the
\* loop body: an active trial account whose trial has ended is deactivated
\* ("db_user = session.get(...); db_user.is_active = False; commit")
TrialChecked(u) ==
    IF TrialExpired(u)
    THEN [userActive EXCEPT ![u] = FALSE]
    ELSE userActive

\* one iteration of "for user, settings in rows" (database_service.py) up to
\* _submit_coro: "auto=False -> skip" (continue), will_run_morning, then the
\* coroutine is handed to the loop; when nothing is to run, the trial check
GatedTickUser ==
    /\ engine = "gated"
    /\ tick.pc = "users"
    /\ LET u == First(tick.rows)
           t == [tick EXCEPT !.rows = @ \ {u}]
       IN IF WillRunMorning(u)
          THEN \E w \in Workers :
                 /\ pass[w].pc = "idle"
                 /\ \A v \in Workers : v < w => pass[v].pc # "idle"
                 /\ pass' = [pass EXCEPT ![w] = [IdlePass EXCEPT !.pc = "start", !.user = u,
                                                                  !.origin = "tick"]]
                 /\ tick' = [t EXCEPT !.pc = "wait", !.user = u, !.w = w]
                 /\ UNCHANGED <<userActive, trialReminded>>
                 /\ lastJob' = NoJob
          ELSE /\ tick' = TickAfterPass(t)
               /\ userActive' = IF tick.cfg[u].auto THEN TrialChecked(u) ELSE userActive
               /\ trialReminded' = IF tick.cfg[u].auto THEN TrialNoted(u) ELSE trialReminded
               /\ lastJob' = IF tick.cfg[u].auto THEN TrialJob(u) ELSE NoJob
               /\ UNCHANGED pass
    /\ UNCHANGED <<install, clock, userTrial, autoSend, morningTime, lastMorningRun,
                   dbClient, tmplActive, MessageLog, delivered>>

\* fut.result(timeout=60) returned: last_morning_run = current_date; commit;
\* then the trial check
GatedTickDone ==
    /\ engine = "gated"
    /\ tick.pc = "wait"
    /\ pass[tick.w].pc = "idle"
    /\ lastMorningRun' = [lastMorningRun EXCEPT ![tick.user] = tick.date]
    /\ userActive' = TrialChecked(tick.user)
    /\ trialReminded' = TrialNoted(tick.user)
    /\ lastJob' = TrialJob(tick.user)
    /\ tick' = TickAfterPass(tick)
    /\ UNCHANGED <<install, clock, userTrial, autoSend, morningTime, dbClient, tmplActive,
                   MessageLog, pass, delivered>>

\* fut.result(timeout=60) raised TimeoutError: the exception is logged, the
\* gate is not written, the coroutine keeps running on the loop; then the
\* trial check
GatedTickTimeout ==
    /\ engine = "gated"
    /\ tick.pc = "wait"
    /\ pass[tick.w].pc # "idle"
    /\ Len(events) < MaxEvents
    /\ events' = Append(events, "timeout")
    /\ userActive' = TrialChecked(tick.user)
    /\ trialReminded' = TrialNoted(tick.user)
    /\ lastJob' = TrialJob(tick.user)
    /\ tick' = TickAfterPass(tick)
    /\ UNCHANGED <<engine, hostUTC, tmplDup, render, services, aborted, clock, userTrial, autoSend,
                   morningTime, lastMorningRun, dbClient, tmplActive, MessageLog, pass,
                   delivered>>

(* ------------------------- overdue housekeeping ----------------------- *)
\* _check_due_dates: every active client with due_date < today becomes
\* inactive; today is date.today() in scheduler_service.py and the
\* America/Sao_Paulo date in database_service.py.  It is a job of the
\* scheduler thread, so it runs between ticks.
CheckDueDates ==
    /\ tick.pc = "idle"
    /\ LET today == IF engine = "sync" THEN HostDate ELSE BusinessDate IN
       /\ \E c \in Clients : clientDue[c] < today /\ clientStatus[c] = "active"
       /\ clientStatus' = [c \in Clients |->
                             IF clientDue[c] < today /\ clientStatus[c] = "active"
                             THEN "inactive" ELSE clientStatus[c]]
    /\ UNCHANGED <<build, clock, dbUser, clientDue, clientAuto, lastReminderSent,
                   tmplActive, MessageLog,
                   pass, tick, delivered>>
    /\ lastJob' = NoJob

(* ------------------------ other scheduler jobs ------------------------ *)
\* _check_pending_payments finds the pending subscription of account u
\* approved: "user.is_trial = False; user.is_active = True"; commit.  It is a
\* job of the scheduler thread.
CheckPendingPayments(u) ==
    /\ tick.pc = "idle"
    /\ ~userActive[u] \/ userTrial[u].is_trial
    /\ Len(events) < MaxEvents
    /\ events' = Append(events, "payment")
    /\ userActive' = [userActive EXCEPT ![u] = TRUE]
    /\ userTrial' = [userTrial EXCEPT ![u].is_trial = FALSE]
    /\ UNCHANGED <<engine, hostUTC, tmplDup, render, services, trialReminded, aborted, clock,
                   autoSend, morningTime, lastMorningRun, dbClient, tmplActive, MessageLog,
                   pass, tick, delivered>>
    /\ lastJob' = NoJob

\* _handle_mp_webhook_request on the web server's thread, for a payment of
\* account u the provider reports approved: _activate_user_subscription sets
\* "db_user.is_trial = False; db_user.is_active = True" and commits.  It is
\* no job of the scheduler thread, so it also runs while a tick is in progress.
ActivateUserSubscription(u) ==
    /\ ~userActive[u] \/ userTrial[u].is_trial
    /\ Len(events) < MaxEvents
    /\ events' = Append(events, "webhook")
    /\ userActive' = [userActive EXCEPT ![u] = TRUE]
    /\ userTrial' = [userTrial EXCEPT ![u].is_trial = FALSE]
    /\ UNCHANGED <<engine, hostUTC, tmplDup, render, services, trialReminded, aborted, clock,
                   autoSend, morningTime, lastMorningRun, dbClient, tmplActive, MessageLog,
                   pass, tick, delivered>>
    /\ lastJob' = NoJob

\* a reset that also forgets the rows of the ledger written today
AutoDailyResetForgets ==
    /\ engine = "sync"
    /\ tick.pc = "idle"
    /\ slot = 0
    /\ Len(events) < MaxEvents
    /\ events' = Append(events, "reset")
    /\ lastReminderSent' = [c \in Clients |-> BusinessDate - 1]
    /\ MessageLog' = SelectSeq(MessageLog, LAMBDA r : r.hday # HostDate)
    /\ UNCHANGED <<engine, hostUTC, tmplDup, render, services, trialReminded, aborted, clock,
                   dbUser, clientDue, clientStatus, clientAuto, tmplActive, pass, tick,
                   delivered>>
    /\ lastJob' = NoJob

\* _auto_daily_reset, scheduled "every().day.at('05:00')" in
\* scheduler_service.py: it sets Client.last_reminder_sent of the clients with
\* status 'active' to yesterday (America/Sao_Paulo) and commits.  No query of
\* the engine reads that field.
AutoDailyReset ==
    /\ engine = "sync"
    /\ tick.pc = "idle"
    /\ slot = 0
    /\ Len(events) < MaxEvents
    /\ events' = Append(events, "reset")
    /\ lastReminderSent' = [c \in Clients |-> IF clientStatus[c] = "active"
                                               THEN BusinessDate - 1
                                               ELSE lastReminderSent[c]]
    /\ UNCHANGED <<engine, hostUTC, tmplDup, render, services, trialReminded, aborted, clock,
                   dbUser, clientDue, clientStatus, clientAuto, tmplActive, MessageLog, pass,
                   tick, delivered>>
    /\ lastJob' = NoJob

(* ------------------------------ environment --------------------------- *)
\* nothing is in progress: no tick, no pass
Quiet == tick.pc = "idle" /\ \A w \in Workers : pass[w].pc = "idle"

\* time passes
Advance ==
    /\ \/ /\ slot # LastSlot
          /\ slot' = slot + 1
          /\ day' = day
       \/ /\ slot = LastSlot
          /\ day < MaxDay
          /\ slot' = 0
          /\ day' = day + 1
    /\ IF Quiet THEN events' = events
       ELSE Len(events) < MaxEvents /\ events' = Append(events, "clock")
    /\ UNCHANGED <<engine, hostUTC, tmplDup, render, services, trialReminded, aborted, dbUser,
                   dbClient, tmplActive, MessageLog, pass, tick, delivered>>
    /\ lastJob' = NoJob

\* the error leaving the tick's loop instead of being logged
PassErrorStopsTick(w) ==
    /\ Len(events) < MaxEvents
    /\ pass[w].pc \in {"start", "client", "commit"}
    /\ events' = Append(events, "dberror")
    /\ aborted' = aborted
    /\ pass' = [pass EXCEPT ![w] = IdlePass]
    /\ tick' = IdleTick
    /\ UNCHANGED <<engine, hostUTC, tmplDup, render, services, trialReminded, clock, dbUser,
                   dbClient, tmplActive, MessageLog, delivered>>
    /\ lastJob' = NoJob

\* a database error (a query, a flush or a commit raises) inside the pass of
\* worker w: the "except Exception" that wraps the whole pass logs it and the
\* pass returns normally; the rows its session had not committed are dropped.
\* In scheduler_service.py the tick's loop goes on with the next account.
PassError(w) ==
    /\ Len(events) < MaxEvents
    /\ pass[w].pc \in {"start", "client", "commit"}
    /\ events' = Append(events, "dberror")
    /\ aborted' = IF pass[w].origin # "tick" THEN aborted
                  ELSE aborted \cup {<<pass[w].user,
                                        IF tick.pc \in {"pass", "wait"} /\ tick.w = w
                                        THEN tick.date ELSE day>>}
    /\ pass' = [pass EXCEPT ![w] = IdlePass]
    /\ tick' = IF engine = "sync" /\ pass[w].origin = "tick" THEN TickAfterPass(tick) ELSE tick
    /\ UNCHANGED <<engine, hostUTC, tmplDup, render, services, trialReminded, clock, dbUser,
                   dbClient, tmplActive, MessageLog, delivered>>
    /\ lastJob' = NoJob

\* the process dies and is started again: threads, sessions and their
\* uncommitted rows are gone, the database is as committed
Crash ==
    /\ Len(events) < MaxEvents
    /\ \/ tick.pc # "idle"
       \/ \E w \in Workers : pass[w].pc # "idle"
    /\ events' = Append(events, "crash")
    /\ pass' = [w \in Workers |-> IdlePass]
    /\ tick' = IdleTick
    /\ UNCHANGED <<engine, hostUTC, tmplDup, render, services, trialReminded, aborted, clock,
                   dbUser, dbClient, tmplActive, MessageLog, delivered>>
    /\ lastJob' = NoJob

(* ------------------------------ payments ------------------------------ *)
\* what the payment code, the transport and the lifecycle leave alone: the
\* reminder engine
reminders == <<engine, hostUTC, day, slot, autoSend, morningTime, lastMorningRun,
               clientDue, clientStatus, clientAuto, lastReminderSent, tmplActive, tmplDup,
               MessageLog,
               pass, tick, delivered, events, aborted, render, trialReminded, lastJob>>

\* Subscription rows, one payment each; Subscription.user_id
Subs == {1, 2}
payer == [s \in Subs |-> s]

\* a Subscription row: its status, whether created_at is more than 24 hours
\* ago, payment.status as the provider reports it; and, as history, the
\* approval notifications sent for it (each with an activation of the account)
\* and the result of check_payment_status in the last run of the poller
NoSubscription ==
    [status |-> "none", old |-> FALSE, mp |-> "none", notified |-> 0, checked |-> "none"]
NoSubscriptions == [s \in Subs |-> NoSubscription]
\* the row a payment is created with
PendingSubscription ==
    [status |-> "pending", old |-> FALSE, mp |-> "pending", notified |-> 0,
     checked |-> "none"]

\* the cleanup query without its status test
OldAny == {s \in Subs : subscription[s].status # "none" /\ subscription[s].old}
\* the cleanup query finding nothing
OldNone == {}

\* Subscription.status == 'pending', Subscription.created_at >= yesterday
PendingRecent == {s \in Subs : subscription[s].status = "pending" /\ ~subscription[s].old}
\* Subscription.status == 'pending', Subscription.created_at < yesterday
OldPending == {s \in Subs : subscription[s].status = "pending" /\ subscription[s].old}

\* the body of "for sub in pending", given whether check_payment_status
\* reported success: approved -> the row is approved, the account activated and
\* notified; rejected, cancelled -> the row takes that status; anything else
\* (pending, in_process) and a failed check -> nothing
Polled(s, ok) ==
    LET r == subscription[s] IN
    IF ~ok THEN [r EXCEPT !.checked = "fail"]
    ELSE IF r.mp = "approved"
         THEN [r EXCEPT !.status = "approved", !.notified = @ + 1, !.checked = "ok"]
    ELSE IF r.mp \in {"rejected", "cancelled"}
         THEN [r EXCEPT !.status = r.mp, !.checked = "ok"]
    ELSE [r EXCEPT !.checked = "ok"]

\* "user.is_trial = False; user.is_active = True" for the payers of S
ActivatedUsers(S) ==
    [u \in Users |-> IF \E s \in S : payer[s] = u THEN TRUE ELSE userActive[u]]
PaidUsers(S) ==
    [u \in Users |-> IF \E s \in S : payer[s] = u
                     THEN [userTrial[u] EXCEPT !.is_trial = FALSE] ELSE userTrial[u]]

\* one run of _check_pending_payments: the pending rows of the last 24 hours
\* are checked with the provider, then the older pending rows are expired
PendingPaymentsJob ==
    \E ok \in [Subs -> BOOLEAN] :
       LET recent == PendingRecent
           old == OldPending
           approved == {s \in recent : ok[s] /\ subscription[s].mp = "approved"}
       IN /\ \A s \in Subs \ recent : ok[s]
          /\ subscription' =
               [s \in Subs |->
                  IF s \in recent THEN Polled(s, ok[s])
                  ELSE IF s \in old
                       THEN [subscription[s] EXCEPT !.status = "expired", !.checked = "none"]
                  ELSE [subscription[s] EXCEPT !.checked = "none"]]
          /\ userActive' = ActivatedUsers(approved)
          /\ userTrial' = PaidUsers(approved)
          /\ UNCHANGED <<reminders, wa, sched>>

\* _handle_mp_webhook_request for the payment of row s: the status is looked up
\* with the provider; when it is approved the account is activated
\* (_activate_user_subscription) and notified (_notify_user_paid_http).  The
\* Subscription row is not read and not written.
MpWebhook(s) ==
    /\ subscription[s].status # "none"
    /\ subscription[s].notified + 1 < MaxNotes
    /\ \E ok \in BOOLEAN :
         LET paid == ok /\ subscription[s].mp = "approved" IN
         /\ subscription' =
              [t \in Subs |->
                 IF t = s /\ paid
                 THEN [subscription[t] EXCEPT !.notified = @ + 1, !.checked = "none"]
                 ELSE [subscription[t] EXCEPT !.checked = "none"]]
         /\ userActive' = IF paid THEN ActivatedUsers({s}) ELSE userActive
         /\ userTrial' = IF paid THEN PaidUsers({s}) ELSE userTrial
    /\ UNCHANGED <<reminders, wa, sched>>

\* the payer pays, or the provider rejects or cancels the payment
MpSettles(s) ==
    /\ subscription[s].mp \in {"pending", "in_process"}
    /\ \E st \in {"in_process", "approved", "rejected", "cancelled"} :
         /\ st # subscription[s].mp
         /\ subscription' = [t \in Subs |->
                               IF t = s THEN [subscription[t] EXCEPT !.mp = st,
                                                                     !.checked = "none"]
                               ELSE [subscription[t] EXCEPT !.checked = "none"]]
    /\ UNCHANGED <<reminders, userActive, userTrial, wa, sched>>

\* 24 hours have passed since the row was created
Ages(s) ==
    /\ subscription[s].status # "none"
    /\ ~subscription[s].old
    /\ subscription' = [t \in Subs |->
                          IF t = s THEN [subscription[t] EXCEPT !.old = TRUE,
                                                                !.checked = "none"]
                          ELSE [subscription[t] EXCEPT !.checked = "none"]]
    /\ UNCHANGED <<reminders, userActive, userTrial, wa, sched>>

(* ------------------------------ transport ----------------------------- *)
\* _wait_for_service(tries=6)
tries == 6

\* what GET /health does at one probe: answers OK, answers not OK, raises
Probes == {"ok", "bad", "exc"}
Healths == [1..tries -> Probes]
\* the probes of the wait inside reconnect_whatsapp
ReconnectHealths == [1..tries -> {"ok", "bad"}]

\* what POST /send/<user_id> does: answers OK with the success flag set;
\* answers OK without it; answers OK without it and with a "not connected"
\* error; answers OK with a body that is no JSON object; answers not OK; times
\* out; raises anything else
Posts == {"success", "refused", "not_connected", "not_json", "http_error", "timeout", "exc"}

\* no call of send_message
NoCall ==
    [pc |-> "idle", health |-> <<>>, post |-> "none", health2 |-> <<>>,
     result |-> "none", error |-> "none", probes |-> 0, probes2 |-> 0, posted |-> FALSE]

\* the wait reporting the bridge healthy without probing it
WaitForServiceTrusting(h, i) == [ok |-> TRUE, probes |-> 0]

\* _wait_for_service from probe i on: True at the first probe that answers
\* OK, False after probe number tries
RECURSIVE WaitForService(_, _)
WaitForService(h, i) ==
    IF i > tries THEN [ok |-> FALSE, probes |-> tries]
    ELSE IF h[i] = "ok" THEN [ok |-> TRUE, probes |-> i]
    ELSE WaitForService(h, i + 1)

\* the exception leaving send_message
Propagates(e) == [result |-> "raised", error |-> e]

\* the two except clauses of send_message
OnException(e) ==
    [result |-> "failure", error |-> IF e = "timeout" THEN "Timeout" ELSE "Unexpected error"]

\* what send_message returns for the answer of POST /send/<user_id>
Answer(post) ==
    IF post = "success" THEN [result |-> "success", error |-> "none"]
    ELSE IF post \in {"refused", "not_connected"} THEN [result |-> "failure", error |-> post]
    ELSE IF post = "http_error" THEN [result |-> "failure", error |-> "HTTP Error"]
    ELSE IF post = "not_json" THEN OnException("exc")
    ELSE OnException(post)

\* send_message(phone_number, message, user_id), given the probes of the
\* bridge, its answer to the POST and the probes of the reconnect
SendMessageCall(c) ==
    LET w == WaitForService(c.health, 1) IN
    IF ~w.ok
    THEN [c EXCEPT !.pc = "done", !.result = "failure",
                   !.error = "WhatsApp service unavailable", !.probes = w.probes]
    ELSE [c EXCEPT !.pc = "done", !.result = Answer(c.post).result,
                   !.error = Answer(c.post).error, !.probes = w.probes,
                   !.posted = TRUE,
                   !.probes2 = IF c.post = "not_connected"
                               THEN WaitForService(c.health2, 1).probes ELSE 0]

\* whatsapp_service.send_message(...) is called and returns
SendMessage ==
    /\ wa.pc = "call"
    /\ wa' = SendMessageCall(wa)
    /\ UNCHANGED <<reminders, userActive, userTrial, subscription, sched>>

(* ------------------------------ lifecycle ----------------------------- *)
MaxThreads == 2      \* scheduler threads the model lets be started
MaxRunnable == 2     \* jobs one run_pending() finds due at the same poll

Threads == 1..MaxThreads

\* a scheduler thread: not started or ended ("none"), at the test of
\* "while self.is_running" after its sleep ("loop"), or inside a job of
\* run_pending() ("job") with left more jobs of the same poll to run after it
NoThread == [pc |-> "none", left |-> 0]

\* SchedulerService as constructed: is_running, the sets of jobs in the
\* module-wide list of the schedule library, self.thread (0 = None), the
\* threads; and, as history, the last lifecycle call, whether stop() has
\* returned and start() was not called since, and whether a job was started
\* in that condition
Constructed ==
    [is_running |-> FALSE, jobs |-> 0, thread |-> 0,
     threads |-> [t \in Threads |-> NoThread],
     last |-> "none", stopped |-> FALSE, late |-> FALSE]

\* the scheduler after start(): one set of jobs, one thread
Running ==
    [Constructed EXCEPT !.is_running = TRUE, !.jobs = 1, !.thread = 1,
                        !.threads = [t \in Threads |->
                                       IF t = 1 THEN [pc |-> "loop", left |-> 0]
                                       ELSE NoThread],
                        !.last = "start"]

\* start(): "if self.is_running: return"; else is_running = True, the jobs are
\* registered and a new thread is started
Start ==
    /\ IF sched.is_running
       THEN sched' = [sched EXCEPT !.last = "start_ignored"]
       ELSE \E t \in Threads :
              /\ sched.threads[t].pc = "none"
              /\ \A v \in Threads : v < t => sched.threads[v].pc # "none"
              /\ sched' = [sched EXCEPT !.is_running = TRUE, !.jobs = @ + 1, !.thread = t,
                                        !.threads[t] = [pc |-> "loop", left |-> 0],
                                        !.last = "start", !.stopped = FALSE]
    /\ UNCHANGED <<reminders, userActive, userTrial, subscription, wa>>

\* stop(): is_running = False; schedule.clear(); the thread is joined.
\* scheduler_service.py joins without a timeout: stop() returns when the
\* thread has ended.  database_service.py joins with timeout=5 and forgets the
\* thread: a thread inside a job may still be there when stop() returns.
Stop ==
    /\ \E intime \in BOOLEAN :
         LET t == sched.thread
             ends == \/ t = 0
                     \/ engine = "sync"
                     \/ sched.threads[t].pc # "job"
                     \/ intime
         IN /\ engine = "sync" => intime
            /\ (t = 0 \/ sched.threads[t].pc # "job") => intime
            /\ sched' = [sched EXCEPT
                           !.is_running = FALSE, !.jobs = 0,
                           !.thread = IF engine = "gated" THEN 0 ELSE @,
                           !.threads = [v \in Threads |->
                                          IF v = t /\ ends THEN NoThread ELSE @[v]],
                           !.last = "stop", !.stopped = TRUE]
    /\ UNCHANGED <<reminders, userActive, userTrial, subscription, wa>>

\* _run_scheduler at "while self.is_running": the thread ends, or
\* run_pending() finds n jobs of the registered sets due and starts the first
ThreadPolls(t) ==
    /\ sched.threads[t].pc = "loop"
    /\ IF ~sched.is_running
       THEN sched' = [sched EXCEPT !.threads[t] = NoThread, !.last = "thread"]
       ELSE \E n \in 1..MaxRunnable :
              /\ sched.jobs > 0
              /\ sched' = [sched EXCEPT !.threads[t] = [pc |-> "job", left |-> n - 1],
                                        !.last = "thread",
                                        !.late = @ \/ sched.stopped]
    /\ UNCHANGED <<reminders, userActive, userTrial, subscription, wa>>

\* a job returns: run_pending() goes on with the next job of the list it
\* sorted at the poll ("for job in sorted(runnable_jobs)"), cleared or not;
\* after the last one the thread sleeps and comes back to the test
ThreadJobReturns(t) ==
    /\ sched.threads[t].pc = "job"
    /\ sched' = IF sched.threads[t].left > 0
                THEN [sched EXCEPT !.threads[t].left = @ - 1, !.last = "thread",
                                   !.late = @ \/ sched.stopped]
                ELSE [sched EXCEPT !.threads[t] = [pc |-> "loop", left |-> 0],
                                   !.last = "thread"]
    /\ UNCHANGED <<reminders, userActive, userTrial, subscription, wa>>

(* ------------------------------ specification ------------------------- *)
\* the data the behaviours start from: due dates, opt-in flags, the
\* <<user, template_type>> pairs that have no active template, the accounts
\* whose morning_reminder_time does not parse, the accounts with auto-send
\* off, the pairs with a second active template, and the accounts on trial
\* with the date their trial ends
NoTrial == [u \in Users |-> [is_trial |-> FALSE, ends |-> 0]]

Scenarios ==
    { [due |-> <<0 - 1, 0, 3, 0>>, auto |-> <<TRUE, FALSE, TRUE, FALSE>>, missing |-> {},
       badTime |-> {}, autoOff |-> {}, dup |-> {}, trial |-> NoTrial],
      [due |-> <<1, 1, 0, 0>>, auto |-> <<TRUE, TRUE, TRUE, TRUE>>,
       missing |-> {<<1, "reminder_1_day">>},
       badTime |-> {}, autoOff |-> {}, dup |-> {},
       trial |-> [NoTrial EXCEPT ![2] = [is_trial |-> TRUE, ends |-> 0]]],
      [due |-> <<0, 0, 0, 0>>, auto |-> <<TRUE, FALSE, FALSE, TRUE>>, missing |-> {},
       badTime |-> {1}, autoOff |-> {2}, dup |-> {<<1, "reminder_due_date">>},
       trial |-> [NoTrial EXCEPT ![1] = [is_trial |-> TRUE, ends |-> 1]]] }

Init ==
    /\ engine \in Engines
    /\ hostUTC \in BOOLEAN
    \* database_service.py never reads the host-local date
    /\ engine = "gated" => ~hostUTC
    /\ day = 0
    /\ slot = 0
    /\ userActive = [u \in Users |-> TRUE]
    /\ lastMorningRun = [u \in Users |-> 0 - 1]
    /\ \E sc \in Scenarios :
         /\ clientDue = sc.due
         /\ clientAuto = sc.auto
         /\ tmplActive = [k \in Users \X Buckets |-> k \notin sc.missing]
         /\ tmplDup = sc.dup
         /\ autoSend = [u \in Users |-> u \notin sc.autoOff]
         /\ morningTime = [u \in Users |-> IF u \in sc.badTime THEN InvalidTime
                                                               ELSE DefaultMorning]
         /\ userTrial = sc.trial
    /\ clientStatus = [c \in Clients |-> "active"]
    /\ lastReminderSent = [c \in Clients |-> 0 - 2]
    /\ MessageLog = <<>>
    /\ pass = [w \in Workers |-> IdlePass]
    /\ tick = IdleTick
    /\ delivered = [k \in Clients \X Buckets \X Days |-> 0]
    /\ events = <<>>
    /\ aborted = {}
    /\ render = NoRender
    /\ trialReminded = {}
    /\ subscription = NoSubscriptions
    /\ wa = NoCall
    /\ sched = Running
    /\ lastJob = NoJob

Next ==
    \/ TickBegin
    \/ SyncTickUser
    \/ \E w \in Workers : SyncClient(w)
    \/ \E w \in Workers : SyncCommit(w)
    \/ \E u \in Users : ForceProcessRemindersToday(u)
    \/ GatedTickUser
    \/ \E w \in Workers : GatedBegin(w)
    \/ \E w \in Workers : GatedClient(w)
    \/ \E w \in Workers : GatedCommit(w)
    \/ \E w \in Workers : GatedEnd(w)
    \/ GatedTickDone
    \/ GatedTickTimeout
    \/ CheckDueDates
    \/ \E u \in Users : CheckPendingPayments(u)
    \/ \E u \in Users : ActivateUserSubscription(u)
    \/ AutoDailyReset
    \/ Advance
    \/ \E w \in Workers : PassError(w)
    \/ Crash

Spec == Init /\ [][Next]_vars

(* ------------------------- the renderer alone -------------------------- *)
\* the scheduler as constructed, and one call of the renderer with a
\* template body and the fields of a client
RenderInit ==
    /\ engine \in Engines
    /\ hostUTC = FALSE
    /\ day = 0
    /\ slot = 0
    /\ userActive = [u \in Users |-> TRUE]
    /\ lastMorningRun = [u \in Users |-> 0 - 1]
    /\ clientDue = [c \in Clients |-> 0]
    /\ clientAuto = [c \in Clients |-> TRUE]
    /\ tmplActive = [k \in Users \X Buckets |-> TRUE]
    /\ tmplDup = {}
    /\ autoSend = [u \in Users |-> TRUE]
    /\ morningTime = [u \in Users |-> DefaultMorning]
    /\ userTrial = NoTrial
    /\ clientStatus = [c \in Clients |-> "active"]
    /\ lastReminderSent = [c \in Clients |-> 0 - 2]
    /\ MessageLog = <<>>
    /\ pass = [w \in Workers |-> IdlePass]
    /\ tick = IdleTick
    /\ delivered = [k \in Clients \X Buckets \X Days |-> 0]
    /\ events = <<>>
    /\ aborted = {}
    /\ trialReminded = {}
    /\ subscription = NoSubscriptions
    /\ wa = NoCall
    /\ sched = Running
    /\ lastJob = NoJob
    /\ \E t \in Contents, f \in ClientFields :
         render = [NoRender EXCEPT !.content = t, !.fields = f]

\* message_content = self._replace_template_variables(template.content, client)
Render ==
    /\ ~render.done
    /\ render' = [render EXCEPT !.body = ReplaceTemplateVariables(engine, render.content,
                                                                  render.fields),
                                !.done = TRUE]
    /\ UNCHANGED <<engine, hostUTC, day, slot, userActive, userTrial, autoSend, morningTime,
                   lastMorningRun, clientDue, clientStatus, clientAuto, lastReminderSent,
                   tmplActive, tmplDup, MessageLog, pass, tick, delivered, events, aborted,
                   trialReminded,
                   services, lastJob>>

RenderNext == Render

RenderSpec == RenderInit /\ [][RenderNext]_vars

(* --------------------- the other services alone ------------------------ *)
\* the reminder engine as constructed, nothing in progress, no data
Fixture ==
    /\ hostUTC = FALSE
    /\ day = 0
    /\ slot = 0
    /\ lastMorningRun = [u \in Users |-> 0 - 1]
    /\ clientDue = [c \in Clients |-> 0]
    /\ clientAuto = [c \in Clients |-> TRUE]
    /\ tmplActive = [k \in Users \X Buckets |-> TRUE]
    /\ tmplDup = {}
    /\ autoSend = [u \in Users |-> TRUE]
    /\ morningTime = [u \in Users |-> DefaultMorning]
    /\ clientStatus = [c \in Clients |-> "active"]
    /\ lastReminderSent = [c \in Clients |-> 0 - 2]
    /\ MessageLog = <<>>
    /\ pass = [w \in Workers |-> IdlePass]
    /\ tick = IdleTick
    /\ delivered = [k \in Clients \X Buckets \X Days |-> 0]
    /\ events = <<>>
    /\ aborted = {}
    /\ render = NoRender
    /\ trialReminded = {}
    /\ lastJob = NoJob

\* accounts on trial, active or already deactivated, each with a payment
\* just created
PayInit ==
    /\ Fixture
    /\ engine \in Engines
    /\ userActive \in [Users -> BOOLEAN]
    /\ userTrial = [u \in Users |-> [is_trial |-> TRUE, ends |-> 0]]
    /\ subscription = [s \in Subs |-> PendingSubscription]
    /\ wa = NoCall
    /\ sched = Running

PayNext ==
    \/ PendingPaymentsJob
    \/ \E s \in Subs : MpWebhook(s)
    \/ \E s \in Subs : MpSettles(s)
    \/ \E s \in Subs : Ages(s)

PaySpec == PayInit /\ [][PayNext]_vars

\* "schedule.every(2).minutes.do(self._check_pending_payments)": the poller
\* keeps being run; and time passes
PayLive ==
    /\ PayInit
    /\ [][PayNext]_vars
    /\ WF_vars(PendingPaymentsJob)
    /\ \A s \in Subs : WF_vars(Ages(s))

\* one call of send_message, with what the bridge will do
SendInit ==
    /\ Fixture
    /\ engine = "sync"
    /\ userActive = [u \in Users |-> TRUE]
    /\ userTrial = NoTrial
    /\ subscription = NoSubscriptions
    /\ sched = Running
    /\ \E h \in Healths, p \in Posts :
         \E h2 \in IF p = "not_connected" THEN ReconnectHealths
                   ELSE {[i \in 1..tries |-> "ok"]} :
            wa = [NoCall EXCEPT !.pc = "call", !.health = h, !.post = p, !.health2 = h2]

SendNext == SendMessage

SendSpec == SendInit /\ [][SendNext]_vars

\* the SchedulerService object after __init__
LifeInit ==
    /\ Fixture
    /\ engine \in Engines
    /\ userActive = [u \in Users |-> TRUE]
    /\ userTrial = NoTrial
    /\ subscription = NoSubscriptions
    /\ wa = NoCall
    /\ sched = Constructed

LifeNext ==
    \/ Start
    \/ Stop
    \/ \E t \in Threads : ThreadPolls(t)
    \/ \E t \in Threads : ThreadJobReturns(t)

LifeSpec == LifeInit /\ [][LifeNext]_vars

(* ================================ claims =============================== *)

\* C1: for every client, bucket and business date the ledger holds at most
\* one row with status "sent", however many passes ran one after another.
\* (Without irregular events every pass is a tick pass that runs to its
\* commit before the next one starts.)
C1_OneSentRowPerDay ==
    events = <<>> =>
        \A c \in Clients, b \in Buckets, d \in Days :
            Cardinality({i \in 1..Len(MessageLog) :
                            /\ MessageLog[i].client = c
                            /\ MessageLog[i].ttype = b
                            /\ MessageLog[i].day = d
                            /\ MessageLog[i].status = "sent"}) <= 1

\* C2: the transport delivers at most one successful reminder per client,
\* bucket and business date, also when the process dies between a successful
\* send and the commit of its row and the pass runs again after the restart.
\* (Stated for scheduler_service.py on a host whose date is the business
\* date, in the behaviours whose only irregular events are restarts.)
C2_OneDeliveryAcrossRestart ==
    (engine = "sync" /\ ~hostUTC /\ \A i \in 1..Len(events) : events[i] = "crash") =>
        \A k \in Clients \X Buckets \X Days : delivered[k] <= 1

\* C3: once a tick has completed a pass for an account on a business date,
\* no later tick of that date starts another pass for the account.
\* (Without irregular events every ledger row was committed by a tick pass
\* that has completed; the step looked at is one iteration of the tick's loop
\* over the accounts.)
C3_OnePassPerDay ==
    [][\A u \in Users :
          ( /\ events = <<>>
            /\ tick.pc = "users"
            /\ tick.date = day
            /\ \E i \in 1..Len(MessageLog) :
                   MessageLog[i].user = u /\ MessageLog[i].day = day )
          => ~ \E w \in Workers :
                   /\ pass[w].pc = "idle"
                   /\ pass'[w].pc # "idle"
                   /\ pass'[w].user = u
                   /\ pass'[w].origin = "tick"]_vars

\* C4: when a tick evaluates an active account with auto-send on, at a
\* business time of day at or after the configured morning time, and the
\* account's last-run date is not the current business date, that tick starts
\* the pass for the account - however late the tick is, and also after a
\* restart.  (The configured time is the one the tick has read; the sync
\* engine returns at once when the account has no client to remind.)
C4_CatchUp ==
    [][\A u \in Users :
          ( /\ tick.pc = "users"
            /\ u = First(tick.rows)
            /\ tick' # tick
            /\ events' = events
            /\ autoSend[u] /\ tick.cfg[u].auto
            /\ tick.cfg[u].morning # InvalidTime
            /\ tick.slot >= tick.cfg[u].morning
            /\ lastMorningRun[u] # tick.date )
          => \/ \E w \in Workers :
                   /\ pass[w].pc = "idle"
                   /\ pass'[w].pc # "idle"
                   /\ pass'[w].user = u
                   /\ pass'[w].origin = "tick"
             \/ /\ engine = "sync"
                /\ \A c \in Clients :
                       Eligible(c, u) => clientDue[c] > HostDate + 2]_vars

\* C4 happens: after a restart, a tick later than the morning slot has handed
\* over the pass of an account that had not run today
C4_Witness ==
    /\ engine = "gated"
    /\ events = <<"crash">>
    /\ tick.pc = "wait"
    /\ tick.slot > morningTime[tick.user]
    /\ lastMorningRun[tick.user] # tick.date
    /\ pass[tick.w].user = tick.user

\* C5: a pass puts every active, opt-in client in the bucket its due date
\* implies: two-days-before iff dueDate = today + 2, one-day-before iff
\* dueDate = today + 1, due-today iff dueDate = today, overdue iff
\* dueDate < today (any number of days), and in no bucket otherwise.
\* (Looked at while a pass is sending, on a host whose date is the business
\* date and without irregular events, so today is the date the pass read.)
C5_BucketOfDelta ==
    \A w \in Workers :
        ( /\ pass[w].pc \in {"client", "commit"}
          /\ events = <<>>
          /\ ~hostUTC )
        => \A c \in Clients :
               Eligible(c, pass[w].user) =>
                   /\ c \in pass[w].groups["reminder_2_days"] <=> clientDue[c] = day + 2
                   /\ c \in pass[w].groups["reminder_1_day"] <=> clientDue[c] = day + 1
                   /\ c \in pass[w].groups["reminder_due_date"] <=> clientDue[c] = day
                   /\ c \in pass[w].groups["reminder_overdue"] <=> clientDue[c] < day

\* C6: a send job whose transport calls all fail makes exactly 3 transport
\* calls and then appends one "failed" row.
C6_RetryExhaustion ==
    lastJob.status = "failed" => lastJob.calls = 3

\* C7: a send job whose first transport call succeeds makes exactly one
\* transport call and appends one "sent" row.
C7_OneCallOnSuccess ==
    lastJob.first = "ok" => (lastJob.calls = 1 /\ lastJob.status = "sent")

\* C8: on every daily run an active, opt-in client whose due date is in the
\* past is classified as overdue and the run appends its own ledger row of
\* that date, whatever rows earlier dates left.  (The step looked at is the
\* one that ends a tick's pass for the account, on a host whose date is the
\* business date; the account has an overdue template.)
C8_OverdueEveryDay ==
    [][\A u \in Users, c \in Clients :
          ( /\ ~hostUTC
            /\ tick.user = u
            /\ tick.date = day
            /\ \/ tick.pc = "wait" /\ lastMorningRun'[u] # lastMorningRun[u]
               \/ tick.pc = "pass" /\ pass[tick.w].pc = "commit" /\ pass'[tick.w].pc = "idle"
                                   /\ events' = events
            /\ Eligible(c, u)
            /\ clientDue[c] < day
            /\ tmplActive[<<u, "reminder_overdue">>] )
          => \E i \in 1..Len(MessageLog') :
                 /\ MessageLog'[i].client = c
                 /\ MessageLog'[i].ttype = "reminder_overdue"
                 /\ MessageLog'[i].day = day]_vars

\* C9: a bucket that has clients but no active template for the account gets
\* no send and no ledger row and exactly one warning, whatever the number of
\* its clients; every other non-empty bucket of the pass is still processed
\* (each of its clients has a row of the date when the pass ends), and the
\* step that warns leaves the tick's remaining accounts in place.
C9_MissingTemplate ==
    /\ [](/\ \A i \in 1..Len(MessageLog) :
                tmplActive[<<MessageLog[i].user, MessageLog[i].ttype>>]
          /\ \A k \in Clients \X Buckets \X Days :
                delivered[k] > 0 => tmplActive[<<owner[k[1]], k[2]>>]
          /\ \A w \in Workers :
                LET p == pass[w]
                    rows == {MessageLog[i] : i \in 1..Len(MessageLog)}
                            \cup {p.pending[i] : i \in 1..Len(p.pending)}
                    over == p.pc = "done" \/ (engine = "sync" /\ p.pc = "commit")
                IN /\ \A i \in 1..Len(p.pending) :
                         tmplActive[<<p.pending[i].user, p.pending[i].ttype>>]
                   /\ \A j \in 1..Len(BucketOrder) :
                         LET b == BucketOrder[j]
                             passed == \/ over
                                       \/ p.pc \in {"client", "commit"} /\ j < p.bi
                                       \/ p.pc = "commit" /\ j = p.bi
                         IN /\ p.warns[b] <= 1
                            /\ p.warns[b] = 1 =>
                                   p.groups[b] # {} /\ ~tmplActive[<<p.user, b>>]
                            /\ (passed /\ p.groups[b] # {}) =>
                                   IF tmplActive[<<p.user, b>>]
                                   THEN \A c \in p.groups[b] :
                                          \E r \in rows :
                                             /\ r.user = p.user /\ r.client = c /\ r.ttype = b
                                             /\ \/ r.day = day
                                                \/ r.hday = HostDate
                                                \/ \E e \in 1..Len(events) : events[e] = "clock"
                                   ELSE p.warns[b] = 1)
    /\ [][\A w \in Workers, b \in Buckets :
             pass'[w].warns[b] > pass[w].warns[b] =>
                 \A u \in tick.rows : u \in tick'.rows \/ u = pass'[w].user]_vars

\* C9 happens: a pass has ended that warned once for a bucket of two clients
\* without template and wrote the row of a client of a later bucket, and the
\* tick still has an account to evaluate
C9_Witness ==
    \E w \in Workers, i \in 1..Len(BucketOrder), j \in 1..Len(BucketOrder) :
        LET p == pass[w] IN
        /\ p.pc = "done" \/ (engine = "sync" /\ p.pc = "commit")
        /\ i < j
        /\ Cardinality(p.groups[BucketOrder[i]]) = 2
        /\ ~tmplActive[<<p.user, BucketOrder[i]>>]
        /\ p.warns[BucketOrder[i]] = 1
        /\ \E c \in p.groups[BucketOrder[j]], r \in {MessageLog[n] : n \in 1..Len(MessageLog)}
                                               \cup {p.pending[n] : n \in 1..Len(p.pending)} :
               r.client = c /\ r.ttype = BucketOrder[j] /\ r.day = day
        /\ tick.rows # {}

\* C10: a manual run never sends a reminder of a bucket to a client to whom
\* one was already delivered on the same business date, whether it runs
\* after the tick's pass or interleaved with it.
C10_ManualRunNoDuplicate ==
    [][\A k \in Clients \X Buckets \X Days :
          ( /\ pass[2].origin = "manual"
            /\ pass'[2] # pass[2]
            /\ delivered'[k] # delivered[k] )
          => delivered[k] = 0]_vars

\* C11: when a database error ends an account's tick pass, the account's
\* last_morning_run is not set to the date of that tick, so the next tick of
\* the date runs the pass again.
C11_ErrorLeavesGateOpen ==
    \A e \in aborted : lastMorningRun[e[1]] # e[2]

\* C12: a tick starts a pass only for an account that is active and has
\* auto-send on at that moment, and a pass that begins for an account that is
\* no longer active ends at once, without a send.
C12_InactiveSkipped ==
    [][/\ \A u \in Users :
             (\E w \in Workers : /\ pass[w].pc = "idle"
                                 /\ pass'[w].pc # "idle"
                                 /\ pass'[w].user = u
                                 /\ pass'[w].origin = "tick")
             => userActive[u] /\ autoSend[u]
       /\ \A w \in Workers :
             ( /\ pass[w].pc = "start"
               /\ pass'[w].pc # "start"
               /\ ~userActive[pass[w].user] )
             => pass'[w].pc = "idle" /\ delivered' = delivered]_vars

\* C12 happens: a tick is at its last account, another account is inactive
\* with auto-send on and no run today, and no pass exists for it
C12_Witness ==
    /\ tick.pc = "wait"
    /\ tick.rows = {}
    /\ \E u \in Users :
          /\ u # tick.user
          /\ ~userActive[u]
          /\ autoSend[u]
          /\ lastMorningRun[u] # tick.date
          /\ \A w \in Workers : pass[w].user # u

\* C13: every send job ends with a row whose status is "sent" if and only if
\* a transport call of the job reported success.
C13_StatusIsOutcome ==
    lastJob.status # "none" => (lastJob.status = "sent" <=> lastJob.oks > 0)

\* C14: while a send of an account's tick pass is in progress the ticker is
\* not waiting for that pass.
C14_TickerNeverWaits ==
    \A w \in Workers :
        (pass[w].origin = "tick" /\ pass[w].pc = "client")
        => ~(tick.pc \in {"pass", "wait"} /\ tick.w = w)

\* C15: every date the engine uses is the business date: a ledger row's date
\* for the dedup window is the business date of its send, housekeeping
\* deactivates a client only when its due date is before the business date,
\* and a pass puts in the due-today bucket the clients due on the business
\* date.
C15_OneBusinessDate ==
    /\ \A i \in 1..Len(MessageLog) : MessageLog[i].hday = MessageLog[i].day
    /\ \A c \in Clients : clientStatus[c] = "inactive" => clientDue[c] < day
    /\ \A w \in Workers :
          (pass[w].pc \in {"client", "commit"} /\ events = <<>>)
          => \A c \in pass[w].groups["reminder_due_date"] : clientDue[c] = day

\* C16: a pass selects only clients of its account that are active and have
\* auto-reminders on at that moment, sends and writes rows only for the
\* clients it selected, and the ledger grows only by the rows of a pass; so
\* no row and no delivery ever exists for a client with auto-reminders off.
C16_OnlyEligibleClients ==
    /\ [](/\ \A i \in 1..Len(MessageLog) : clientAuto[MessageLog[i].client]
          /\ \A k \in Clients \X Buckets \X Days : delivered[k] > 0 => clientAuto[k[1]])
    /\ [][/\ \A w \in Workers, b \in Buckets, c \in Clients :
                (c \in pass'[w].groups[b] /\ c \notin pass[w].groups[b])
                => /\ owner[c] = pass'[w].user
                   /\ clientStatus[c] = "active"
                   /\ clientAuto[c]
          /\ \A w \in Workers :
                Len(pass'[w].pending) > Len(pass[w].pending)
                => LET r == pass'[w].pending[Len(pass'[w].pending)]
                   IN r.user = pass[w].user /\ r.client \in pass[w].groups[r.ttype]
          /\ \A k \in Clients \X Buckets \X Days :
                delivered'[k] # delivered[k]
                => \E w \in Workers : pass'[w] # pass[w] /\ k[1] \in pass[w].groups[k[2]]
          /\ MessageLog' # MessageLog
                => \E w \in Workers : MessageLog' = MessageLog \o pass[w].pending]_vars

\* C16 happens: a pass has written a row and is at its commit while its
\* account has an inactive client and a client with auto-reminders off, both
\* with a due date in the past
C16_Witness ==
    \E w \in Workers, c \in Clients, d \in Clients :
        /\ pass[w].pc = "commit"
        /\ Len(pass[w].pending) > 0
        /\ owner[c] = pass[w].user /\ clientStatus[c] = "inactive" /\ clientAuto[c]
        /\ clientDue[c] < day
        /\ owner[d] = pass[w].user /\ clientStatus[d] = "active" /\ ~clientAuto[d]
        /\ clientDue[d] < day

\* C17: a tick that evaluates an account whose morning_reminder_time does
\* not parse starts no pass for it.
C17_InvalidTimeSkipped ==
    [][\A u \in Users :
          ( /\ tick.pc = "users"
            /\ u = First(tick.rows)
            /\ tick.cfg[u].morning = InvalidTime )
          => \A w \in Workers :
                 (pass[w].pc = "idle" /\ pass'[w].pc # "idle" /\ pass'[w].origin = "tick")
                 => pass'[w].user # u]_vars

C19_OneTickPassPerAccount ==
    [][\A u \in Users, w \in Workers :
          ( /\ pass[w].pc = "idle"
            /\ pass'[w].pc # "idle"
            /\ pass'[w].user = u
            /\ pass'[w].origin = "tick" )
          => ~ \E v \in Workers :
                   pass[v].pc # "idle" /\ pass[v].user = u /\ pass[v].origin = "tick"]_vars

\* C20: once a tick pass has recorded a send as "failed", no tick pass of the
\* same business date attempts that client and bucket again.  (Without
\* irregular events, on a host whose date is the business date.)
C20_FailedNotRetriedToday ==
    [][\A w \in Workers :
          ( /\ events = <<>>
            /\ ~hostUTC
            /\ pass[w].origin = "tick"
            /\ Len(pass'[w].pending) > Len(pass[w].pending) )
          => LET r == pass'[w].pending[Len(pass'[w].pending)]
             IN ~ \E i \in 1..Len(MessageLog) :
                    /\ MessageLog[i].client = r.client
                    /\ MessageLog[i].ttype = r.ttype
                    /\ MessageLog[i].day = r.day
                    /\ MessageLog[i].status = "failed"]_vars

\* C21: when a pass handles a client of a bucket and the ledger (with the
\* rows the pass has written) holds no `sent` row of that client and bucket
\* for the current business date, the pass attempts the send and writes a
\* row; a client is skipped only when such a `sent` row exists.
C21_FailedStaysEligible ==
    [][\A w \in Workers :
          ( /\ pass[w].pc = "client"
            /\ pass'[w] # pass[w]
            /\ pass'[w].pc # "idle"
            /\ ~ \E r \in {MessageLog[i] : i \in 1..Len(MessageLog)}
                          \cup {pass[w].pending[i] : i \in 1..Len(pass[w].pending)} :
                     /\ r.client = First(pass[w].todo)
                     /\ r.ttype = BucketOrder[pass[w].bi]
                     /\ r.day = BusinessDate
                     /\ r.status = "sent" )
          => /\ Len(pass'[w].pending) = Len(pass[w].pending) + 1
             /\ pass'[w].pending[Len(pass'[w].pending)].client = First(pass[w].todo)]_vars

\* C22: a send job without a successful transport call ends only after 3
\* attempts; a job with a successful call has exactly that one success, made
\* no transport call after it, and ends with a `sent` row.
C22_RetryUntilSuccess ==
    lastJob.status # "none" =>
        /\ lastJob.oks = 0 => lastJob.attempts = attempts
        /\ lastJob.oks > 0 => /\ lastJob.oks = 1
                              /\ lastJob.status = "sent"
                              /\ lastJob.calls = lastJob.attempts

\* C23: overdue housekeeping sets a client inactive only after the client was
\* reminded as overdue: when it deactivates an opt-in client of an active
\* account with auto-send on, a valid reminder time and an overdue template,
\* the ledger holds a `sent` overdue row of that client.  (On a host whose
\* date is the business date.)
C23_RemindedBeforeInactive ==
    [][\A c \in Clients :
          ( /\ ~hostUTC
            /\ clientStatus[c] = "active"
            /\ clientStatus'[c] = "inactive"
            /\ clientAuto[c]
            /\ userActive[owner[c]]
            /\ autoSend[owner[c]]
            /\ morningTime[owner[c]] # InvalidTime
            /\ tmplActive[<<owner[c], "reminder_overdue">>] )
          => \E i \in 1..Len(MessageLog) :
                 /\ MessageLog[i].client = c
                 /\ MessageLog[i].ttype = "reminder_overdue"
                 /\ MessageLog[i].status = "sent"]_vars

C25_GateBeforeOutcomes ==
    \A w \in Workers :
        ( /\ events = <<>>
          /\ pass[w].origin = "tick"
          /\ Len(pass[w].pending) > 0 )
        => lastMorningRun[pass[w].user] = BusinessDate

\* C26: every step leaves the committed ledger rows as they are, in their
\* order; the ledger changes only by rows added at its end.
C26_LedgerAppendOnly ==
    [][/\ Len(MessageLog') >= Len(MessageLog)
       /\ \A i \in 1..Len(MessageLog) : MessageLog'[i] = MessageLog[i]]_vars

\* C26 happens: the ledger holds a row of the first date and a row of the
\* next date, after the daily reset or an approved payment or a manual run
C26_Witness ==
    /\ Len(MessageLog) >= 2
    /\ MessageLog[1].day = 0
    /\ MessageLog[Len(MessageLog)].day = 1
    /\ Len(events) = 1
    /\ events[1] \in {"reset", "payment", "manual"}
    /\ \E c \in Clients : clientStatus[c] = "inactive"

\* C27: while a pass is sending a bucket to its clients, the account has
\* exactly one active template of that bucket.
C27_ExactlyOneTemplate ==
    \A w \in Workers :
        pass[w].pc = "client"
        => /\ tmplActive[<<pass[w].user, BucketOrder[pass[w].bi]>>]
           /\ <<pass[w].user, BucketOrder[pass[w].bi]>> \notin tmplDup

\* C28: at least one wait separates any two consecutive transport calls:
\* inside a send job there are at least as many waits as calls after the
\* first, and when two steps in a row each run a send job, the earlier job
\* ended with a wait.  (Without irregular events.)
C28_WaitBetweenSends ==
    /\ [](lastJob.calls > 0 => lastJob.sleeps >= lastJob.calls - 1)
    /\ [][( /\ events = <<>>
            /\ lastJob.calls > 0
            /\ lastJob'.calls > 0 )
          => /\ lastJob.sleeps > 0
             /\ lastJob.status = "failed"]_vars

\* C29: the rendered body is the template with each known placeholder
\* replaced by the client's field value as stored and every other token left
\* as it is; a placeholder text inside a field value stays as it is.  (For
\* templates and values without line breaks.)
C29_RenderVerbatim ==
    LET f == render.fields
        value(tok) == IF tok = "{nome}" THEN f.name
                      ELSE IF tok = "{plano}" THEN f.plan
                      ELSE IF tok = "{informacoes_extras}" THEN f.extras
                      ELSE <<tok>>
        RECURSIVE atOnce(_)
        atOnce(t) == IF t = <<>> THEN <<>> ELSE value(Head(t)) \o atOnce(Tail(t))
    IN ( /\ render.done
         /\ \A i \in 1..Len(render.content) : render.content[i] # "NL"
         /\ f.extras # <<"NL">> )
       => render.body = atOnce(render.content)

\* C30: a step sends the trial-expiry reminder to an account only when no
\* such reminder was sent to that account on the tick's business date
\* before.  (Without irregular events.)
C30_TrialReminderOncePerDay ==
    [][\A u \in Users :
          ( /\ events' = <<>>
            /\ lastJob'.trial = u )
          => <<u, tick.date>> \notin trialReminded]_vars

\* C31: a tick step that finishes the evaluation of an active trial account
\* whose trial has ended leaves the account inactive and sends it the payment
\* notification.  (Without irregular events.)
C31_ExpiredTrialDeactivated ==
    [][\A u \in Users :
          ( /\ events' = <<>>
            /\ tick.pc = "users"
            /\ u = First(tick.rows)
            /\ tick'.pc \in {"users", "idle"}
            /\ userTrial[u].is_trial
            /\ userTrial[u].ends <= tick.date
            /\ userActive[u] )
          => ( ~userActive'[u] /\ lastJob'.paynote = u )]_vars

\* C32: no step deactivates an account that is active and not on trial (its
\* payment was approved, or it never was on trial).
C32_PaidNeverDeactivated ==
    [][\A u \in Users :
          (userActive[u] /\ ~userTrial[u].is_trial) => userActive'[u]]_vars

\* C33: for every payment the account is activated and the approval
\* notification is sent at most once, whoever observes the approval (the
\* poller, the webhook, the webhook again).
C33_OneApprovalNotice ==
    \A s \in Subs : subscription[s].notified <= 1

\* C34: a Subscription row changes its status only from pending, and only to
\* approved, rejected, cancelled or expired; and a run of the poller in which
\* the status check of a row failed leaves that row's status and its account
\* as they were.
C34_OnlyPendingChanges ==
    [][\A s \in Subs :
          /\ subscription'[s].status # subscription[s].status
               => /\ subscription[s].status = "pending"
                  /\ subscription'[s].status \in {"approved", "rejected", "cancelled",
                                                  "expired"}
          /\ subscription'[s].checked = "fail"
               => /\ subscription'[s].status = subscription[s].status
                  /\ userActive'[payer[s]] = userActive[payer[s]]
                  /\ userTrial'[payer[s]] = userTrial[payer[s]]]_vars

\* a run of the poller in which the check of one pending row failed and the
\* other row was approved
C34_Witness ==
    \E s, t \in Subs :
       /\ subscription[s].checked = "fail"
       /\ subscription[s].status = "pending"
       /\ subscription[t].checked = "ok"
       /\ subscription[t].status = "approved"

\* C35: no step marks a pending row expired while the provider reports its
\* payment approved.
C35_ApprovedNeverExpired ==
    [][\A s \in Subs :
          (subscription[s].status = "pending" /\ subscription[s].mp = "approved")
          => subscription'[s].status # "expired"]_vars

\* C36: with the poller run again and again and time passing, every pending
\* row eventually is approved, rejected, cancelled or expired.
C36_PendingEventuallyLeaves ==
    \A s \in Subs :
       (subscription[s].status = "pending")
       ~> (subscription[s].status \in {"approved", "rejected", "cancelled", "expired"})

\* a row the provider never settled was expired by the cleanup
C36_Witness ==
    \E s \in Subs :
       /\ subscription[s].status = "expired"
       /\ subscription[s].mp \in {"pending", "in_process"}
       /\ subscription[s].old

\* C37: a finished call of send_message has returned a value (it did not
\* raise); the value is success exactly when some health probe answered OK and
\* the POST answered OK with the success flag set; no wait made more than 6
\* probes; and when no probe answered OK the call made 6 probes, no POST, and
\* returned failure.
C37_SendMessageTotal ==
    wa.pc = "done" =>
       LET healthy == \E i \in 1..tries : wa.health[i] = "ok" IN
       /\ wa.result \in {"success", "failure"}
       /\ wa.result = "success" <=> (healthy /\ wa.post = "success")
       /\ wa.probes <= tries
       /\ wa.probes2 <= tries
       /\ ~healthy => (wa.probes = tries /\ ~wa.posted /\ wa.result = "failure")

\* the bridge never answered OK to a probe and the call returned; or the
\* POST timed out or raised and the call returned
C37_Witness ==
    /\ wa.pc = "done"
    /\ \/ \A i \in 1..tries : wa.health[i] # "ok"
       \/ wa.posted /\ wa.post \in {"timeout", "exc", "not_json"}
    /\ wa.result = "failure"

\* C38: start() on a running scheduler changes neither the registered jobs
\* nor the threads; at most one set of jobs is ever registered; and no job is
\* started after stop() has returned and before start() is called again.
C38_StartStop ==
    /\ [](sched.jobs <= 1 /\ ~sched.late)
    /\ [][sched'.last = "start_ignored"
            => (sched'.jobs = sched.jobs /\ sched'.threads = sched.threads)]_vars

====
